---- MODULE Spec2Model ----
(***************************************************************************)
(* Model of src/app.py (Smart Asset Pro): the receipt-to-ledger flow of    *)
(* tab 1 (recognise / review / confirm / discard / manual form), the       *)
(* SQLite ledger behind run_query, the report of tab 2 and the activity    *)
(* log of tab 3.  One action is one Streamlit script run, top to bottom.   *)
(*                                                                         *)
(* Text is a sequence of character codes ("2024-01-05" is ten codes);      *)
(* amounts are whole currency units; Chinese string literals of the source *)
(* are written in ASCII.                                                   *)
(***************************************************************************)
EXTENDS Integers, Sequences, FiniteSets, TLC

VARIABLES
    session_state,  \* st.session_state: a function whose only key is "pending_items"
    edited_df,      \* what st.data_editor returned in the last run (key "editor_safe")
    db,             \* table transactions of expenses_pro.db: a set of rows
    seq,            \* sqlite_sequence of transactions (AUTOINCREMENT never reuses an id)
    ui,             \* what the last script run showed: button pressed, messages
    view,           \* the branch of line 188 the last run rendered
    filter_mode,    \* tab 2 radio
    sel_year,       \* tab 2 year selectbox
    sel_month       \* tab 2 month selectbox

vars == <<session_state, edited_df, db, seq, ui, view, filter_mode, sel_year, sel_month>>

-----------------------------------------------------------------------------
(* Bounds *)

\* rows ever inserted in Spec (the AUTOINCREMENT counter is capped here)
MaxId == 2
\* elements of a JSON array the interpreter returns
MaxItems == 2
\* rows ever inserted in the specifications of the activity log and the report
MaxLedger == 3

-----------------------------------------------------------------------------
(* Text and dates *)

Digit(n) == 48 + n
\* '-' is three codes below '0'
Dash == Digit(0) - 3
IsDigit(c) == c >= 48 /\ c <= 57
Val(c) == c - 48

\* datetime.now().date(), fixed for the session
Today == <<2024, 10, 5>>

\* date.isoformat(), which str(date) and sqlite3's date adapter both use
isoformat(d) ==
    << Digit(d[1] \div 1000), Digit((d[1] \div 100) % 10),
       Digit((d[1] \div 10) % 10), Digit(d[1] % 10), Dash,
       Digit(d[2] \div 10), Digit(d[2] % 10), Dash,
       Digit(d[3] \div 10), Digit(d[3] % 10) >>

\* pd.to_datetime on one text: an ISO date parses, anything else raises
to_datetime(t) ==
    IF /\ Len(t) = 10
       /\ t[5] = Dash /\ t[8] = Dash
       /\ \A i \in {1, 2, 3, 4, 6, 7, 9, 10} : IsDigit(t[i])
       /\ Val(t[6]) * 10 + Val(t[7]) \in 1..12
       /\ Val(t[9]) * 10 + Val(t[10]) \in 1..31
    THEN [ok |-> TRUE,
          date |-> << Val(t[1]) * 1000 + Val(t[2]) * 100 + Val(t[3]) * 10 + Val(t[4]),
                      Val(t[6]) * 10 + Val(t[7]),
                      Val(t[9]) * 10 + Val(t[10]) >>]
    ELSE [ok |-> FALSE, date |-> <<0, 0, 0>>]

\* SQLite's comparison of two TEXT values (BINARY collation): s < t
RECURSIVE TextLess(_, _)
TextLess(s, t) ==
    IF t = <<>> THEN FALSE
    ELSE IF s = <<>> THEN TRUE
    ELSE IF Head(s) # Head(t) THEN Head(s) < Head(t)
    ELSE TextLess(Tail(s), Tail(t))

\* float(x) on a str: decimal digits parse, anything else raises ValueError
RECURSIVE DigitsValue(_, _)
DigitsValue(t, acc) ==
    IF t = <<>> THEN acc ELSE DigitsValue(Tail(t), acc * 10 + Val(Head(t)))

-----------------------------------------------------------------------------
(* JSON the interpreter may answer with *)

Text_n_a == <<110, 47, 97>>         \* "n/a"
Text_0 == <<Digit(0)>>              \* "0"
D1 == <<2024, 2, 1>>

\* a value under key 'amount': absent, null, a number, or a string
AmtAbsent == [t |-> "absent", n |-> 0, s |-> <<>>]
AmtNull == [t |-> "null", n |-> 0, s |-> <<>>]
AmtNum(k) == [t |-> "num", n |-> k, s |-> <<>>]
AmtStr(x) == [t |-> "str", n |-> 0, s |-> x]
\* a value under key 'date': absent or a string
DateAbsent == [t |-> "absent", s |-> <<>>]
DateStr(x) == [t |-> "str", s |-> x]
\* an absent 'item', 'category' or 'note'
ABSENT == "<absent>"

\* the objects the interpreter's array is made of in this model
AIItems ==
    { [date |-> DateStr(isoformat(D1)), item |-> "milk", category |-> "food",
       amount |-> AmtNum(5), note |-> ABSENT],
      [date |-> DateAbsent, item |-> ABSENT, category |-> ABSENT,
       amount |-> AmtAbsent, note |-> ABSENT],
      [date |-> DateStr(Text_n_a), item |-> ABSENT, category |-> ABSENT,
       amount |-> AmtStr(Text_0), note |-> ABSENT],
      [date |-> DateStr(isoformat(D1)), item |-> "milk", category |-> "food",
       amount |-> AmtNull, note |-> ABSENT],
      [date |-> DateStr(isoformat(D1)), item |-> "milk", category |-> "food",
       amount |-> AmtStr(Text_n_a), note |-> ABSENT] }

\* the objects whose amount is a number
WellFormed == {x \in AIItems : x.amount.t = "num"}

SeqsUpTo(S, n) == UNION { [1..k -> S] : k \in 0..n }

\* what json.loads can return here: a list, a dict (items holds it alone) or None
JsonArray(xs) == [kind |-> "array", items |-> xs]
JsonObject(x) == [kind |-> "object", items |-> <<x>>]
JsonNull == [kind |-> "null", items |-> <<>>]
\* the arrays: every sequence of well-formed objects, and each of the shorter
\* ones with any object of AIItems after it
Arrays ==
    SeqsUpTo(WellFormed, MaxItems)
        \cup {Append(xs, x) : xs \in SeqsUpTo(WellFormed, MaxItems - 1), x \in AIItems}
Payloads ==
    {JsonArray(xs) : xs \in Arrays}
        \cup {JsonObject(x) : x \in AIItems} \cup {JsonNull}

\* response.text as tokens: a Markdown fence, a JSON document, or other prose
TokFenceJson == [k |-> "fence_json", v |-> JsonNull]
TokFence == [k |-> "fence", v |-> JsonNull]
TokProse == [k |-> "prose", v |-> JsonNull]
TokJson(p) == [k |-> "json", v |-> p]

\* generate_content either raises or answers with a text
Responses ==
    {[raised |-> TRUE, text |-> <<>>]}
        \cup {[raised |-> FALSE, text |-> t] : t \in {<<>>, <<TokProse>>}}
        \cup {[raised |-> FALSE, text |-> <<TokJson(p)>>] : p \in Payloads}
        \cup {[raised |-> FALSE, text |-> <<TokFenceJson, TokJson(p), TokFence>>] :
                p \in {q \in Payloads : Len(q.items) <= 1}}

-----------------------------------------------------------------------------
(* ai_analyze_receipt *)

\* text.replace(<fence>json, "").replace(<fence>, ""), <fence> being three backticks
RECURSIVE StripFences(_)
StripFences(t) ==
    IF t = <<>> THEN <<>>
    ELSE IF Head(t).k \in {"fence_json", "fence"} THEN StripFences(Tail(t))
    ELSE <<Head(t)>> \o StripFences(Tail(t))

\* json.loads: exactly one JSON document parses, anything else raises
json_loads(t) ==
    IF Len(t) = 1 /\ t[1].k = "json"
    THEN [ok |-> TRUE, data |-> t[1].v]
    ELSE [ok |-> FALSE, data |-> JsonNull]

\* the pair (data, error) ai_analyze_receipt returns; data is None when error is set
ai_analyze_receipt(response) ==
    IF response.raised THEN [data |-> JsonNull, error |-> TRUE]
    ELSE LET parsed == json_loads(StripFences(response.text))
         IN IF ~parsed.ok THEN [data |-> JsonNull, error |-> TRUE]
            ELSE IF parsed.data.kind = "object"
                 THEN [data |-> JsonArray(parsed.data.items), error |-> FALSE]
                 ELSE [data |-> parsed.data, error |-> FALSE]

\* Python truth of data: a non-empty list
Truthy(data) == data.kind = "array" /\ data.items # <<>>

-----------------------------------------------------------------------------
(* The cleaning loop of the recognise handler *)

\* float(item.get('amount', 0.0))
float(a) ==
    CASE a.t = "absent" -> [ok |-> TRUE, v |-> 0]
      [] a.t = "num" -> [ok |-> TRUE, v |-> a.n]
      [] a.t = "str" ->
            IF a.s # <<>> /\ \A i \in 1..Len(a.s) : IsDigit(a.s[i])
            THEN [ok |-> TRUE, v |-> DigitsValue(a.s, 0)]
            ELSE [ok |-> FALSE, v |-> 0]
      [] OTHER -> [ok |-> FALSE, v |-> 0]

\* the try/except around the date: anything unparseable becomes today
CleanDate(d) ==
    LET d_str == IF d.t = "absent" THEN isoformat(Today) ELSE d.s
        p == to_datetime(d_str)
    IN IF p.ok THEN p.date ELSE Today

Get(x, default) == IF x = ABSENT THEN default ELSE x

\* one clean_data.append({...})
CleanItem(item) ==
    [date |-> CleanDate(item.date),
     item |-> Get(item.item, "unknown item"),
     category |-> Get(item.category, "other"),
     amount |-> float(item.amount).v,
     type |-> "Expense",
     note |-> Get(item.note, "")]

\* the whole loop: it raises at the first element whose amount float() rejects
clean_data(items) ==
    [raised |-> \E i \in 1..Len(items) : ~float(items[i].amount).ok,
     rows |-> [i \in 1..Len(items) |-> CleanItem(items[i])]]

-----------------------------------------------------------------------------
(* The ledger: run_query on table transactions *)

\* INSERT INTO transactions (...) VALUES (...): the date is bound through
\* sqlite3's date adapter, the id is the next AUTOINCREMENT value
NewRow(id, p) ==
    [id |-> id, date |-> isoformat(p.date), item |-> p.item, category |-> p.category,
     type |-> p.type, amount |-> p.amount, note |-> p.note]

\* run_query(INSERT ...) on store st = [db, seq, errors]: when sqlite3 raises,
\* the except branch shows st.error and returns, and nothing is stored
run_query_insert(st, p, raises) ==
    IF raises
    THEN [st EXCEPT !.errors = @ + 1]
    ELSE [db |-> st.db \cup {NewRow(st.seq + 1, p)}, seq |-> st.seq + 1,
          errors |-> st.errors]

\* the loop "for row in edited_df: run_query(INSERT ...)"
RECURSIVE InsertAll(_, _, _)
InsertAll(st, rows, raises) ==
    IF rows = <<>> THEN st
    ELSE InsertAll(run_query_insert(st, Head(rows), Head(raises)),
                   Tail(rows), Tail(raises))

\* mutant: ORDER BY date DESC, id ASC
Before_id_ascending(r, q) ==
    \/ TextLess(q.date, r.date)
    \/ r.date = q.date /\ r.id < q.id

\* ORDER BY date DESC, id DESC: r comes before q
Before(r, q) ==
    \/ TextLess(q.date, r.date)
    \/ r.date = q.date /\ r.id > q.id

\* the rows of SELECT ... FROM transactions ORDER BY date DESC, id DESC
RECURSIVE OrderBy(_)
OrderBy(rows) ==
    IF rows = {} THEN <<>>
    ELSE LET first == CHOOSE r \in rows : \A q \in rows \ {r} : Before(r, q)
         IN <<first>> \o OrderBy(rows \ {first})

\* the columns tab 3 selects (no id)
Columns(r) ==
    [date |-> r.date, item |-> r.item, category |-> r.category, type |-> r.type,
     amount |-> r.amount, note |-> r.note]

\* data_log of tab 3
data_log(rows) == [i \in 1..Cardinality(rows) |-> Columns(OrderBy(rows)[i])]

-----------------------------------------------------------------------------
(* One script run of tab 1 *)

NoSession == [k \in {} |-> <<>>]
HasPending(ss) == "pending_items" \in DOMAIN ss

\* line 188: the review block, or else the manual form
Tab1View(ss) == IF HasPending(ss) /\ ss.pending_items # <<>> THEN "review" ELSE "manual"

\* nothing shown: no st.success, no st.error, no traceback
Shown == [success |-> "", count |-> 0, errors |-> 0, raised |-> FALSE]

\* a run in which no button of the review block or the form is pressed: line 188
\* picks the branch; the editor keeps its edits while it stays on screen
RestOfRun(s, shown) ==
    LET v == Tab1View(s.session_state)
    IN [s EXCEPT !.ui = shown,
                 !.view = v,
                 !.edited_df = IF v # "review" THEN <<>>
                               ELSE IF s.view = "review" THEN s.edited_df
                               ELSE s.session_state.pending_items]

\* float() raised at line 175: the run stops there, nothing below is rendered
OnRaised(s) ==
    [s EXCEPT !.ui = [Shown EXCEPT !.raised = TRUE], !.view = "none", !.edited_df = <<>>]

\* mutant: the recognise handler saves the drafts at once
OnRecognised_autosave(s, rows) ==
    LET st == InsertAll([db |-> s.db, seq |-> s.seq, errors |-> 0], rows,
                        [i \in 1..Len(rows) |-> FALSE])
    IN [s EXCEPT !.session_state = [pending_items |-> rows],
                 !.edited_df = rows,
                 !.view = "review",
                 !.db = st.db, !.seq = st.seq,
                 !.ui = [Shown EXCEPT !.success = "recognised"]]

\* lines 180-182: the drafts replace the buffer, the editor shows them
OnRecognised(s, rows) ==
    [s EXCEPT !.session_state = [pending_items |-> rows],
              !.edited_df = rows,
              !.view = "review",
              !.ui = [Shown EXCEPT !.success = "recognised"]]

\* mutant: the error branch also stores the (None) result over the buffer
OnError_drops_buffer(s) ==
    RestOfRun([s EXCEPT !.session_state = NoSession], [Shown EXCEPT !.errors = 1])

\* lines 184-185: st.error(error), nothing else
OnError(s) == RestOfRun(s, [Shown EXCEPT !.errors = 1])

\* lines 157-185, then the rest of the run
RecogniseHandler(s, response) ==
    LET r == ai_analyze_receipt(response)
        c == clean_data(r.data.items)
    IN IF Truthy(r.data)
       THEN IF c.raised THEN OnRaised(s) ELSE OnRecognised(s, c.rows)
       ELSE IF r.error THEN OnError(s) ELSE RestOfRun(s, Shown)

\* lines 210-217
ConfirmHandler(s, raises) ==
    LET st == InsertAll([db |-> s.db, seq |-> s.seq, errors |-> 0], s.edited_df, raises)
    IN [s EXCEPT !.db = st.db, !.seq = st.seq,
                 !.ui = [Shown EXCEPT !.success = "saved",
                                                 !.count = Len(s.edited_df),
                                                 !.errors = st.errors],
                 !.session_state = NoSession,
                 !.edited_df = <<>>,
                 !.view = "review"]

\* lines 220-221
DiscardHandler(s) ==
    [s EXCEPT !.session_state = NoSession, !.edited_df = <<>>,
              !.view = "review", !.ui = Shown]

\* lines 227-244; t is the radio's label
ManualHandler(s, d, t, cat, amt, it, note, raises) ==
    LET tx_type == IF t = "zhichu" THEN "Expense" ELSE "Income"
        st == run_query_insert([db |-> s.db, seq |-> s.seq, errors |-> 0],
                               [date |-> d, item |-> it, category |-> cat,
                                type |-> tx_type, amount |-> amt, note |-> note],
                               raises)
    IN [s EXCEPT !.db = st.db, !.seq = st.seq, !.view = "manual",
                 !.ui = [Shown EXCEPT !.success = "manual saved",
                                                !.errors = st.errors]]

\* lines 442-445: DELETE FROM transactions, then st.rerun()
ClearHandler(s, raises) ==
    RestOfRun([s EXCEPT !.db = IF raises THEN s.db ELSE {}], Shown)

-----------------------------------------------------------------------------
(* Tab 2: the report *)

\* df_raw: SELECT * FROM transactions, in rowid order
RECURSIVE df_raw(_)
df_raw(rows) ==
    IF rows = {} THEN <<>>
    ELSE LET first == CHOOSE r \in rows : \A q \in rows : r.id <= q.id
         IN <<first>> \o df_raw(rows \ {first})

\* df['year'], df['month'] of one row
YearOf(r) == to_datetime(r.date).date[1]
MonthOf(r) == to_datetime(r.date).date[2]

\* sorted(df['year'].unique(), reverse=True)
RECURSIVE SortedDesc(_)
SortedDesc(S) ==
    IF S = {} THEN <<>>
    ELSE LET top == CHOOSE x \in S : \A y \in S : y <= x
         IN <<top>> \o SortedDesc(S \ {top})

unique_years(rows) == SortedDesc({YearOf(r) : r \in rows})

\* the year selectbox: the chosen option, or the first one when the choice is
\* not among the options
YearValue(rows, chosen) ==
    IF \E i \in 1..Len(unique_years(rows)) : unique_years(rows)[i] = chosen
    THEN chosen ELSE unique_years(rows)[1]

\* lines 271-287: the mask of one row
MonthMode == "by month"
YearMode == "by year"
\* mutant: | for & in the month mask
Mask_or(r, mode, year, month) ==
    IF mode = MonthMode THEN YearOf(r) = year \/ MonthOf(r) = month ELSE YearOf(r) = year

Mask(r, mode, year, month) ==
    IF mode = MonthMode THEN YearOf(r) = year /\ MonthOf(r) = month ELSE YearOf(r) = year

\* df[mask]
RECURSIVE Filter(_, _, _, _)
Filter(df, mode, year, month) ==
    IF df = <<>> THEN <<>>
    ELSE (IF Mask(Head(df), mode, year, month) THEN <<Head(df)>> ELSE <<>>)
            \o Filter(Tail(df), mode, year, month)

\* filtered_df[filtered_df['type'] == ty]['amount'].sum()
RECURSIVE SumOfType(_, _)
SumOfType(df, ty) ==
    IF df = <<>> THEN 0
    ELSE (IF Head(df).type = ty THEN Head(df).amount ELSE 0) + SumOfType(Tail(df), ty)

\* lines 251-302: the three metrics, shown only when the window holds a row
Report(rows, mode, chosen, month) ==
    LET df == df_raw(rows)
        filtered_df == Filter(df, mode, YearValue(rows, chosen), month)
        inc == SumOfType(filtered_df, "Income")
        exp == SumOfType(filtered_df, "Expense")
    IN IF df = <<>> \/ filtered_df = <<>>
       THEN [shown |-> FALSE, inc |-> 0, exp |-> 0, balance |-> 0]
       ELSE [shown |-> TRUE, inc |-> inc, exp |-> exp, balance |-> inc - exp]

\* range(1, 13)
Months == 1..12

-----------------------------------------------------------------------------
(* Actions: one per script run *)

Cur ==
    [session_state |-> session_state, edited_df |-> edited_df, db |-> db,
     seq |-> seq, ui |-> ui, view |-> view]

Apply(s) ==
    /\ session_state' = s.session_state
    /\ edited_df' = s.edited_df
    /\ db' = s.db
    /\ seq' = s.seq
    /\ ui' = s.ui
    /\ view' = s.view

Window == <<filter_mode, sel_year, sel_month>>

\* the state after the first run: init_db() on a fresh file, nothing pending
Init ==
    /\ session_state = NoSession
    /\ edited_df = <<>>
    /\ db = {}
    /\ seq = 0
    /\ ui = Shown
    /\ view = "manual"
    /\ filter_mode = MonthMode
    /\ sel_year = 0
    /\ sel_month = Today[2]

\* the uploader holds a file and the recognise button is pressed
Recognise(responses) ==
    /\ \E response \in responses : Apply(RecogniseHandler(Cur, response))
    /\ UNCHANGED Window

ReviewOnScreen == view = "review" /\ Tab1View(session_state) = "review"

BoolSeqs(n) == [1..n -> BOOLEAN]

\* the row a user adds in the editor: every required column filled, the category
\* one of the seeded names ("food" and "other" stand for two of them)
AddedRows ==
    { [date |-> Today, item |-> "bread", category |-> "food", amount |-> 7,
       type |-> ty, note |-> ""] : ty \in {"Income"} }

\* the editor: change a row's type (here: the last row's)
EditType ==
    /\ ReviewOnScreen
    /\ \E i \in {Len(edited_df)} \cap (1..Len(edited_df)), ty \in {"Expense", "Income"} :
          /\ edited_df[i].type # ty
          /\ Apply([Cur EXCEPT !.edited_df = [edited_df EXCEPT ![i].type = ty],
                               !.ui = Shown])
    /\ UNCHANGED Window

\* the editor: delete a row (here: the first one)
DeleteRow ==
    /\ ReviewOnScreen
    /\ \E i \in {1} \cap (1..Len(edited_df)) :
          Apply([Cur EXCEPT !.edited_df = SubSeq(edited_df, 1, i - 1)
                                            \o SubSeq(edited_df, i + 1, Len(edited_df)),
                            !.ui = Shown])
    /\ UNCHANGED Window

\* the editor: add a row at the end (here: while it holds fewer rows than drafts,
\* or the drafts as recognised)
AddRow ==
    /\ ReviewOnScreen
    /\ \/ Len(edited_df) < Len(session_state.pending_items)
       \/ edited_df = session_state.pending_items
    /\ \E row \in AddedRows :
          Apply([Cur EXCEPT !.edited_df = Append(edited_df, row), !.ui = Shown])
    /\ UNCHANGED Window

Confirm(maxid) ==
    /\ ReviewOnScreen
    /\ seq + Len(edited_df) <= maxid
    /\ \E raises \in BoolSeqs(Len(edited_df)) : Apply(ConfirmHandler(Cur, raises))
    /\ UNCHANGED Window

Discard ==
    /\ ReviewOnScreen
    /\ Apply(DiscardHandler(Cur))
    /\ UNCHANGED Window

\* what the form is filled with
ManualSave(entries, maxid) ==
    /\ view = "manual"
    /\ seq < maxid
    /\ \E e \in entries, raises \in BOOLEAN :
          Apply(ManualHandler(Cur, e.d, e.t, e.cat, e.amt, e.it, e.note, raises))
    /\ UNCHANGED Window

ClearAll ==
    /\ view # "none"
    /\ \E raises \in BOOLEAN : Apply(ClearHandler(Cur, raises))
    /\ UNCHANGED Window

\* any other interaction: the script runs with no button pressed
Rerun ==
    /\ Apply(RestOfRun(Cur, Shown))
    /\ UNCHANGED Window

\* tab 2's widgets, there when the table holds a row
SelectWindow ==
    /\ view # "none"
    /\ db # {}
    /\ \E mode \in {MonthMode, YearMode}, m \in Months,
          i \in 1..Len(unique_years(db)) :
          /\ filter_mode' = mode
          /\ sel_year' = unique_years(db)[i]
          /\ sel_month' = m
    /\ Apply(RestOfRun(Cur, Shown))

FlowEntries ==
    { [d |-> D1, t |-> "shouru", cat |-> "other", amt |-> 9, it |-> "pay", note |-> ""] }

Next ==
    \/ Recognise(Responses)
    \/ EditType
    \/ DeleteRow
    \/ AddRow
    \/ Confirm(MaxId)
    \/ Discard
    \/ ManualSave(FlowEntries, MaxId)
    \/ ClearAll
    \/ Rerun

Spec == Init /\ [][Next]_vars

-----------------------------------------------------------------------------
(* The activity log: inserts by confirm batches and manual saves *)

D0 == <<2023, 12, 31>>

LogEntries ==
    { [d |-> d, t |-> "zhichu", cat |-> "food", amt |-> 3, it |-> "tea", note |-> ""] :
        d \in {D0, D1, Today} }

\* one answer: two well-formed objects, dated D1 and (by default) today
LogResponses ==
    { [raised |-> FALSE,
       text |-> <<TokJson(JsonArray(<<x, y>>))>>] :
        x \in WellFormed, y \in {z \in AIItems : z.amount.t = "absent"} }

NextLog ==
    \/ Recognise(LogResponses)
    \/ Confirm(MaxLedger)
    \/ ManualSave(LogEntries, MaxLedger)
    \/ ClearAll
    \/ Rerun

SpecLog == Init /\ [][NextLog]_vars

-----------------------------------------------------------------------------
(* The report: manual saves and the window widgets *)

ReportEntries ==
    { [d |-> <<2024, 1, 5>>, t |-> "shouru", cat |-> "other", amt |-> 100,
       it |-> "", note |-> ""],
      [d |-> <<2024, 1, 10>>, t |-> "zhichu", cat |-> "food", amt |-> 30,
       it |-> "", note |-> ""],
      [d |-> <<2024, 2, 1>>, t |-> "zhichu", cat |-> "food", amt |-> 5,
       it |-> "", note |-> ""],
      [d |-> <<2023, 1, 20>>, t |-> "shouru", cat |-> "other", amt |-> 30,
       it |-> "", note |-> ""] }

NextReport ==
    \/ ManualSave(ReportEntries, MaxLedger)
    \/ SelectWindow
    \/ ClearAll

SpecReport == Init /\ [][NextReport]_vars

-----------------------------------------------------------------------------
(* Claims *)

\* the drafts the buffer holds: none when the key is absent
BufferRows(ss) == IF HasPending(ss) THEN ss.pending_items ELSE <<>>

\* an 'amount' that is absent, null or not numeric
LacksAmount(x) == x.amount.t = "absent" \/ ~float(x.amount).ok

\* the rows a step stored
Stored == db' \ db

\* C1: confirm persists every row of the edited buffer: the table grows by exactly
\* the number of buffer rows, and the count reported is the number of rows stored.
C1_ConfirmPersistsEveryRow ==
    [][Confirm(MaxId) =>
          /\ Cardinality(db') = Cardinality(db) + Len(edited_df)
          /\ ui'.count = Cardinality(Stored)]_vars

\* C2: a draft row lacking an amount (absent, null, non-numeric) is not rejected:
\* recognise turns it into a draft of amount 0, and confirm stores each row of the
\* buffer with its amount.
C2_MissingAmountStoredAsZero ==
    [][/\ \A response \in Responses :
            LET r == ai_analyze_receipt(response)
            IN (/\ Truthy(r.data)
                /\ \E i \in 1..Len(r.data.items) : LacksAmount(r.data.items[i])
                /\ Apply(RecogniseHandler(Cur, response)))
               => /\ ~ui'.raised
                  /\ Len(BufferRows(session_state')) = Len(r.data.items)
                  /\ \A i \in 1..Len(r.data.items) :
                        LacksAmount(r.data.items[i])
                            => BufferRows(session_state')[i].amount = 0
       /\ Confirm(MaxId) =>
            \A i \in 1..Len(edited_df) :
                \E row \in Stored : row.id = seq + i /\ row.amount = edited_df[i].amount
      ]_vars

\* C3: when an INSERT of confirm or of the manual form raises, the failure is
\* reported, nothing of the operation is stored, no success message is shown, and
\* for confirm the buffer still holds its drafts.
C3_FailedStoreLeavesStateUnchanged ==
    [][/\ \A raises \in BoolSeqs(Len(edited_df)) :
            (/\ ReviewOnScreen
             /\ \E i \in 1..Len(raises) : raises[i]
             /\ Apply(ConfirmHandler(Cur, raises)))
            => /\ ui'.errors >= 1
               /\ db' = db
               /\ ui'.success = ""
               /\ session_state' = session_state
       /\ \A e \in FlowEntries :
            (/\ view = "manual"
             /\ Apply(ManualHandler(Cur, e.d, e.t, e.cat, e.amt, e.it, e.note, TRUE)))
            => /\ ui'.errors >= 1
               /\ db' = db
               /\ ui'.success = ""
      ]_vars

\* the responses on which ai_analyze_receipt returns (None, error)
ErrorResponses == {response \in Responses : ai_analyze_receipt(response).error}

\* C4: when ai_analyze_receipt returns (None, error), the error is shown, no draft
\* is produced and the buffer is what it was: absent if it was absent, the same
\* drafts (and the same edits on screen) if it held any.
C4_InterpreterErrorLeavesBuffer ==
    [][(\E response \in ErrorResponses : Apply(RecogniseHandler(Cur, response)))
          => /\ ui'.errors = 1
             /\ ui'.success = ""
             /\ session_state' = session_state
             /\ ReviewOnScreen => edited_df' = edited_df
             /\ db' = db]_vars

\* C4 witness: an interpreter error was shown while the buffer holds edited drafts
C4_Witness ==
    /\ ui.errors = 1 /\ ui.success = ""
    /\ HasPending(session_state)
    /\ edited_df # session_state.pending_items

\* C5: recognise and the edits of the buffer never write to the ledger, whatever
\* the interpreter answered: a step that changes the table or its id counter is
\* neither a recognise step nor an edit.
C5_RecogniseNeverWrites ==
    [][(db' # db \/ seq' # seq)
          => ~(Recognise(Responses) \/ EditType \/ DeleteRow \/ AddRow)]_vars

\* C5 witness: drafts recognised and edited on top of a non-empty ledger
C5_Witness ==
    /\ db # {}
    /\ HasPending(session_state)
    /\ Len(edited_df) > Len(session_state.pending_items)
    /\ ui = Shown

\* C6: every interpreter output that is a sequence replaces the buffer: one draft
\* per element, in order, none of the earlier drafts or edits, the empty sequence
\* included.  Stated for the sequences the cleaning loop accepts (it raises on
\* the others, which is C2's subject).
C6_RecogniseReplacesBuffer ==
    [][\A response \in Responses :
          LET r == ai_analyze_receipt(response)
          IN (/\ ~r.error /\ r.data.kind = "array"
              /\ ~clean_data(r.data.items).raised
              /\ Apply(RecogniseHandler(Cur, response)))
             => /\ Len(BufferRows(session_state')) = Len(r.data.items)
                /\ \A i \in 1..Len(r.data.items) :
                      BufferRows(session_state')[i] = CleanItem(r.data.items[i])
                /\ edited_df' = BufferRows(session_state')]_vars

\* C7: a response that parses to a bare object makes ai_analyze_receipt return the
\* one-element sequence holding it, with no error, and the buffer then holds
\* exactly the one draft built from it.
C7_BareObjectBecomesOneDraft ==
    [][\A response \in Responses :
          LET parsed == json_loads(StripFences(response.text))
              r == ai_analyze_receipt(response)
          IN (/\ ~response.raised /\ parsed.ok /\ parsed.data.kind = "object"
              /\ Apply(RecogniseHandler(Cur, response)))
             => /\ r = [data |-> JsonArray(parsed.data.items), error |-> FALSE]
                /\ Len(parsed.data.items) = 1
                /\ BufferRows(session_state') = <<CleanItem(parsed.data.items[1])>>]_vars

\* calendar order of two stored dates
DateLeq(a, b) ==
    LET x == to_datetime(a).date
        y == to_datetime(b).date
    IN \/ x[1] < y[1]
       \/ x[1] = y[1] /\ x[2] < y[2]
       \/ x[1] = y[1] /\ x[2] = y[2] /\ x[3] <= y[3]

\* C8: the list-all read returns every stored row exactly once, by date
\* descending, rows of one date by id descending.
C8_ListAllOrdered ==
    LET L == OrderBy(db)
    IN /\ Len(L) = Cardinality(db)
       /\ \A r \in db : Cardinality({i \in 1..Len(L) : L[i] = r}) = 1
       /\ Len(data_log(db)) = Len(L)
       /\ \A i \in 1..Len(L) : data_log(db)[i] = Columns(L[i])
       /\ \A i, j \in 1..Len(L) :
            i < j => /\ DateLeq(L[j].date, L[i].date)
                     /\ L[i].date = L[j].date => L[i].id > L[j].id

\* C8 witness: three rows, two of one date, and a later date inserted before an
\* earlier one, some by a confirm batch (type Expense, item milk)
C8_Witness ==
    /\ Cardinality(db) = 3
    /\ \E r, q \in db : r.id # q.id /\ r.date = q.date
    /\ \E r, q \in db : r.id < q.id /\ ~DateLeq(r.date, q.date)
    /\ \E r, q \in db : r.id < q.id /\ ~DateLeq(q.date, r.date)
    /\ \E r \in db : r.item = "milk"
    /\ \E r \in db : r.item = "tea"

\* the sum of the amounts of a set of rows
RECURSIVE SumAmounts(_)
SumAmounts(rows) ==
    IF rows = {} THEN 0
    ELSE LET r == CHOOSE x \in rows : TRUE
         IN r.amount + SumAmounts(rows \ {r})

\* the rows of the chosen window
InWindow ==
    {r \in db : /\ YearOf(r) = YearValue(db, sel_year)
                /\ filter_mode = MonthMode => MonthOf(r) = sel_month}

\* what tab 2 shows
Shows == Report(db, filter_mode, sel_year, sel_month)

Figures ==
    /\ Shows.shown
    /\ Shows.inc = SumAmounts({r \in InWindow : r.type = "Income"})
    /\ Shows.exp = SumAmounts({r \in InWindow : r.type = "Expense"})
    /\ Shows.balance = Shows.inc - Shows.exp

\* C9 as stated: for every stored set and every chosen window the report's income,
\* expense and balance are the sums over exactly the rows of the window.
C9_ReportSumsEveryWindow == db # {} => Figures

\* C9 amended: the same for every window that holds a stored row; for a window
\* that holds none the report shows no figure.
C9_ReportSumsNonEmptyWindow ==
    db # {} => IF InWindow # {} THEN Figures ELSE ~Shows.shown

\* C9 witness: the literal set of the specification, window year 2024, month 1
C9_Witness ==
    /\ {Columns(r) : r \in db} =
          {[date |-> isoformat(e.d), item |-> "", category |-> e.cat, note |-> "",
            type |-> IF e.t = "zhichu" THEN "Expense" ELSE "Income", amount |-> e.amt] :
              e \in {x \in ReportEntries : x.d[1] = 2024}}
    /\ Cardinality(db) = 3
    /\ filter_mode = MonthMode /\ sel_year = 2024 /\ sel_month = 1
    /\ Shows = [shown |-> TRUE, inc |-> 100, exp |-> 30, balance |-> 70]

\* C10: the buffer becomes absent only by confirm or discard; after confirm it is
\* absent and every row is a stored transaction; after discard it is absent and
\* the ledger is unchanged; a run that renders tab 1 offers the manual form
\* exactly when the buffer, as line 188 finds it (before confirm or discard
\* delete it), is absent or empty.
C10_BufferLifecycle ==
    [][/\ (HasPending(session_state) /\ ~HasPending(session_state'))
            => (Confirm(MaxId) \/ Discard)
       /\ Confirm(MaxId) =>
            /\ ~HasPending(session_state')
            /\ \A i \in 1..Len(edited_df) :
                  \E row \in Stored :
                      /\ row.id = seq + i
                      /\ Columns(row) = Columns(NewRow(0, edited_df[i]))
       /\ Discard => ~HasPending(session_state') /\ db' = db
       /\ view' # "none" =>
            ((view' = "manual") <=>
                (Tab1View(IF HasPending(session_state) /\ ~HasPending(session_state')
                          THEN session_state ELSE session_state') = "manual"))
      ]_vars

====
